---- MODULE Spec2Model ----
(***************************************************************************)
(* Model of the dynamic-environment DestinationRule handler                *)
(* (pkg/handlers/destinationrule_handler.go) and of the ownership          *)
(* annotation helpers of package watches.                                  *)
(*                                                                         *)
(* Go strings are modelled as sequences of one-character strings, so that  *)
(* concatenation, strings.Split, strings.SplitN and strings.Join are       *)
(* computed character by character.                                       *)
(***************************************************************************)
EXTENDS Integers, Sequences, FiniteSets, TLC

(***************************************************************************)
(* Bounds of the model.                                                    *)
(***************************************************************************)
\* longest annotation value an externally written object starts with
MaxLen == 3
\* longest annotation value AddToAnnotation is applied to
MaxAnnLen == 8
\* Handle calls on one handler
MaxCalls == 2
\* changes made to the store by others between the calls
MaxExt == 1
\* length of the unique names and service hosts that names are computed from
MaxNameLen == 3

(***************************************************************************)
(* Go string helpers.                                                      *)
(***************************************************************************)
\* all strings over alphabet A of length at most n
StringsUpTo(A, n) == UNION {[1..k -> A] : k \in 0..n}

\* index of the first occurrence of character c in s, 0 when absent
IndexOf(s, c) ==
    IF \E i \in 1..Len(s) : s[i] = c
    THEN CHOOSE i \in 1..Len(s) : s[i] = c /\ \A j \in 1..(i - 1) : s[j] # c
    ELSE 0

RECURSIVE Split(_, _)
\* strings.Split(s, c): Split("", c) is the one-element list [""]
Split(s, c) ==
    LET i == IndexOf(s, c) IN
    IF i = 0 THEN <<s>>
    ELSE <<SubSeq(s, 1, i - 1)>> \o Split(SubSeq(s, i + 1, Len(s)), c)

\* strings.SplitN(s, c, 2): at most two substrings, the second is the remainder
SplitN2(s, c) ==
    LET i == IndexOf(s, c) IN
    IF i = 0 THEN <<s>>
    ELSE <<SubSeq(s, 1, i - 1), SubSeq(s, i + 1, Len(s))>>

RECURSIVE Join(_, _)
\* strings.Join(list, c)
Join(list, c) ==
    IF Len(list) = 0 THEN <<>>
    ELSE IF Len(list) = 1 THEN list[1]
    ELSE list[1] \o <<c>> \o Join(Tail(list), c)

\* helpers.StringSliceContains(item, slice)
StringSliceContains(item, slice) == \E i \in 1..Len(slice) : slice[i] = item

\* helpers.RemoveItemFromStringSlice(item, slice)
RemoveItemFromStringSlice(item, slice) == SelectSeq(slice, LAMBDA s : s # item)

\* number of positions of list that hold item
Count(item, list) == Cardinality({i \in 1..Len(list) : list[i] = item})

(***************************************************************************)
(* Objects' annotations (metav1.ObjectMeta.Annotations): a Go map that     *)
(* may be nil.  A lookup of an absent key yields the empty string.         *)
(***************************************************************************)
NamespacedNameAnnotation == "riskified.com/dynamic-environment"
OtherAnnotation == "other"

AnnotationKeys == {NamespacedNameAnnotation, OtherAnnotation}

\* keys: the keys present in the map; val: their values ("" for an absent key)
NilAnnotations == [nil |-> TRUE, keys |-> {}, val |-> [k \in AnnotationKeys |-> <<>>]]
EmptyAnnotations == [nil |-> FALSE, keys |-> {}, val |-> [k \in AnnotationKeys |-> <<>>]]

\* annotations[key]
Lookup(annotations, key) == annotations.val[key]

\* annotations[key] = value
SetKey(annotations, key, value) ==
    [nil |-> FALSE,
     keys |-> annotations.keys \cup {key},
     val |-> [annotations.val EXCEPT ![key] = value]]

\* fmt.Sprintf("%s/%s", owner.Namespace, owner.Name)
OwnerToken(owner) == owner.Namespace \o <<"/">> \o owner.Name

(***************************************************************************)
(* package watches                                                         *)
(***************************************************************************)
RECURSIVE addToQueueLoop(_, _, _)
\* the loop of addToQueue over the tokens: values[1] of a token without "/"
\* is an index out of range, a run-time panic that ends the call
addToQueueLoop(dynamicEnvs, i, q) ==
    IF i > Len(dynamicEnvs) THEN [q |-> q, panic |-> FALSE]
    ELSE LET env == dynamicEnvs[i]
             values == SplitN2(env, "/")
         IN IF env # <<>>
            THEN IF Len(values) < 2
                 THEN [q |-> q, panic |-> TRUE]
                 ELSE addToQueueLoop(dynamicEnvs, i + 1,
                        Append(q, [Namespace |-> values[1], Name |-> values[2]]))
            ELSE addToQueueLoop(dynamicEnvs, i + 1, q)

\* addToQueue(object, q): the annotations of object are given
addToQueue(annotations, q) ==
    IF ~annotations.nil
    THEN addToQueueLoop(Split(Lookup(annotations, NamespacedNameAnnotation), ","), 1, q)
    ELSE [q |-> q, panic |-> FALSE]

\* AddToAnnotation that appends the owner without looking for it
AddToAnnotationAlwaysAppend(owner, annotations0) ==
    LET annotations == IF annotations0.nil THEN EmptyAnnotations ELSE annotations0
        existingDynamicEnvs == Split(Lookup(annotations, NamespacedNameAnnotation), ",")
        currentDynamicEnv == OwnerToken(owner)
        updated ==
            IF Len(existingDynamicEnvs) = 1 /\ existingDynamicEnvs[1] = <<>>
            THEN <<currentDynamicEnv>>
            ELSE Append(existingDynamicEnvs, currentDynamicEnv)
    IN SetKey(annotations, NamespacedNameAnnotation, Join(updated, ","))

\* AddToAnnotation that puts a new owner first
AddToAnnotationPrepends(owner, annotations0) ==
    LET annotations == IF annotations0.nil THEN EmptyAnnotations ELSE annotations0
        existingDynamicEnvs == Split(Lookup(annotations, NamespacedNameAnnotation), ",")
        currentDynamicEnv == OwnerToken(owner)
        updated ==
            IF Len(existingDynamicEnvs) = 1 /\ existingDynamicEnvs[1] = <<>>
            THEN <<currentDynamicEnv>>
            ELSE IF ~StringSliceContains(currentDynamicEnv, existingDynamicEnvs)
                 THEN <<currentDynamicEnv>> \o existingDynamicEnvs
                 ELSE existingDynamicEnvs
    IN SetKey(annotations, NamespacedNameAnnotation, Join(updated, ","))

\* AddToAnnotation(owner, object): returns the annotations set on object
AddToAnnotation(owner, annotations0) ==
    LET annotations == IF annotations0.nil THEN EmptyAnnotations ELSE annotations0
        existingDynamicEnvs == Split(Lookup(annotations, NamespacedNameAnnotation), ",")
        currentDynamicEnv == OwnerToken(owner)
        updated ==
            IF Len(existingDynamicEnvs) = 1 /\ existingDynamicEnvs[1] = <<>>
            THEN <<currentDynamicEnv>>
            ELSE IF ~StringSliceContains(currentDynamicEnv, existingDynamicEnvs)
                 THEN Append(existingDynamicEnvs, currentDynamicEnv)
                 ELSE existingDynamicEnvs
    IN SetKey(annotations, NamespacedNameAnnotation, Join(updated, ","))

\* RemoveFromAnnotation that deletes the key when no owner is left
RemoveFromAnnotationDeletesKey(owner, annotations0) ==
    LET annotations == IF annotations0.nil THEN EmptyAnnotations ELSE annotations0
        existingDynamicEnvs == Split(Lookup(annotations, NamespacedNameAnnotation), ",")
        currentDynamicEnv == OwnerToken(owner)
        updated == RemoveItemFromStringSlice(currentDynamicEnv, existingDynamicEnvs)
    IN IF updated = <<>>
       THEN [nil |-> FALSE,
             keys |-> annotations.keys \ {NamespacedNameAnnotation},
             val |-> [annotations.val EXCEPT ![NamespacedNameAnnotation] = <<>>]]
       ELSE SetKey(annotations, NamespacedNameAnnotation, Join(updated, ","))

\* RemoveFromAnnotation(owner, object): returns the annotations set on object
RemoveFromAnnotation(owner, annotations0) ==
    LET annotations == IF annotations0.nil THEN EmptyAnnotations ELSE annotations0
        existingDynamicEnvs == Split(Lookup(annotations, NamespacedNameAnnotation), ",")
        currentDynamicEnv == OwnerToken(owner)
        updated == RemoveItemFromStringSlice(currentDynamicEnv, existingDynamicEnvs)
    IN SetKey(annotations, NamespacedNameAnnotation, Join(updated, ","))

\* ContainsAnnotation(searchItem, object)
ContainsAnnotation(searchItem, annotations) ==
    IF annotations.nil THEN FALSE
    ELSE StringSliceContains(OwnerToken(searchItem),
                             Split(Lookup(annotations, NamespacedNameAnnotation), ","))

(***************************************************************************)
(* package handlers: the DestinationRuleHandler and the store it uses.     *)
(***************************************************************************)
\* the fields of the handler that a reconciliation does not change
UniqueName == <<"u">>
UniqueVersion == <<"2">>
Namespace == <<"n">>
VersionLabel == <<"v">>
DefaultVersion == <<"1">>
Owner == [Namespace |-> <<"n">>, Name |-> <<"e">>]

\* LifeCycleStatus values
Initializing == "initializing"
Running == "running"
Missing == "missing"
IgnoredMissingDR == "ignored-missing-destination-rule"

\* error values: nil, the IgnoredMissing{} error, an error of the store or of
\* the status handler, and the error of Handle for an empty activeHosts
NoError == "nil"
IgnoredMissing == "IgnoredMissing"
StoreError == "StoreError"
NoBaseError == "no base destination rules were found"

\* labels[key] of a map[string]string given as a set of <<key, value>> pairs
LabelOf(labels, key) ==
    IF \E p \in labels : p[1] = key
    THEN (CHOOSE p \in labels : p[1] = key)[2]
    ELSE <<>>

\* calculateDRName of a handler whose UniqueName is uniqueName
calculateDRNameOf(uniqueName, serviceHost) == uniqueName \o <<"-">> \o serviceHost

\* h.calculateDRName(serviceHost)
calculateDRName(serviceHost) == calculateDRNameOf(UniqueName, serviceHost)

\* helpers.MatchNamespacedHost(hostname, namespace, matchedHost, matchedNamespace)
MatchNamespacedHost(hostname, namespace, matchedHost, matchedNamespace) ==
    \/ hostname = matchedHost
    \/ hostname \o <<".">> \o namespace = matchedHost
    \/ matchedHost \o <<".">> \o matchedNamespace = hostname

\* the store fails the operation op issued for the i-th host
Fails(fault, i, op) == fault.host = i /\ fault.op = op
NoFault == [host |-> 0, op |-> "none"]

\* client.Get: the positions of the store that hold the object of that key
GetObject(store, name, namespace) ==
    {j \in 1..Len(store) : store[j].Name = name /\ store[j].Namespace = namespace}

\* the sequence s back to front
Reverse(s) == [j \in 1..Len(s) |-> s[Len(s) + 1 - j]]

\* client.List with client.InNamespace(namespace): the objects of the namespace,
\* in the order the store answers with: the store does not promise an order,
\* so that either of two objects can come first (k says which)
ListObjects(store, namespace, k) ==
    LET items == SelectSeq(store, LAMBDA dr : dr.Namespace = namespace)
    IN IF k THEN Reverse(items) ELSE items

\* an entry of the record of the store and status operations of one call
LogEntry(op, host, res) == [op |-> op, host |-> host, res |-> res]

\* the positions of the listed objects that match the host and have a subset
\* whose version label is the default version (the conditions of the loop of
\* locateDestinationRuleByHostname)
AcceptedAt(destinationRules, hostName) ==
    {j \in 1..Len(destinationRules) :
        /\ MatchNamespacedHost(hostName, Namespace,
               destinationRules[j].Host, destinationRules[j].Namespace)
        /\ \E n \in 1..Len(destinationRules[j].Subsets) :
               LabelOf(destinationRules[j].Subsets[n].Labels, VersionLabel)
                   = DefaultVersion}

\* the loop of locateDestinationRuleByHostname returning the last accepted
\* object
locateInListLast(destinationRules, accepted, i) ==
    IF accepted # {}
    THEN [dr |-> <<destinationRules[CHOOSE j \in accepted : \A m \in accepted : j >= m]>>,
          err |-> NoError,
          log |-> <<LogEntry("List", i, NoError)>>]
    ELSE [dr |-> <<>>, err |-> IgnoredMissing,
          log |-> <<LogEntry("List", i, IgnoredMissing)>>]

\* the loop of locateDestinationRuleByHostname over the listed objects: the
\* first accepted one is returned, IgnoredMissing{} when there is none
locateInList(destinationRules, accepted, i) ==
    IF accepted # {}
    THEN [dr |-> <<destinationRules[CHOOSE j \in accepted : \A m \in accepted : j <= m]>>,
          err |-> NoError,
          log |-> <<LogEntry("List", i, NoError)>>]
    ELSE [dr |-> <<>>, err |-> IgnoredMissing,
          log |-> <<LogEntry("List", i, IgnoredMissing)>>]

\* the items of a successful List, searched
locateInItems(destinationRules, hostName, i) ==
    locateInList(destinationRules, AcceptedAt(destinationRules, hostName), i)

\* h.locateDestinationRuleByHostname(hostName)
locateDestinationRuleByHostname(h, hostName, i, fault, k) ==
    IF Fails(fault, i, "List")
    THEN [dr |-> <<>>, err |-> StoreError,
          log |-> <<LogEntry("List", i, StoreError)>>]
    ELSE locateInItems(ListObjects(h.store, Namespace, k), hostName, i)

\* generateOverridingDestinationRule with the service host as the host of
\* the new object
generateFromServiceHost(located, serviceHost) ==
    IF located.err # NoError
    THEN [dr |-> <<>>, err |-> located.err, log |-> located.log]
    ELSE [dr |-> <<[Name |-> calculateDRName(serviceHost),
                    Namespace |-> Namespace,
                    Labels |-> {<<VersionLabel, UniqueVersion>>},
                    Host |-> serviceHost,
                    Subsets |-> <<[Name |-> UniqueVersion,
                                   Labels |-> {<<VersionLabel, UniqueVersion>>}]>>,
                    Annotations |-> NilAnnotations]>>,
          err |-> NoError, log |-> located.log]

\* generateOverridingDestinationRule once the baseline is located
generateFrom(located, serviceHost) ==
    IF located.err # NoError
    THEN [dr |-> <<>>, err |-> located.err, log |-> located.log]
    ELSE [dr |-> <<[Name |-> calculateDRName(serviceHost),
                    Namespace |-> Namespace,
                    Labels |-> {<<VersionLabel, UniqueVersion>>},
                    Host |-> located.dr[1].Host,
                    Subsets |-> <<[Name |-> UniqueVersion,
                                   Labels |-> {<<VersionLabel, UniqueVersion>>}]>>,
                    Annotations |-> NilAnnotations]>>,
          err |-> NoError, log |-> located.log]

\* h.generateOverridingDestinationRule(serviceHost)
generateOverridingDestinationRule(h, serviceHost, i, fault, k) ==
    generateFrom(locateDestinationRuleByHostname(h, serviceHost, i, fault, k),
                 serviceHost)

\* a Create that puts the new object in the place of the objects of its host
createObjectReplaces(h, newDestinationRule, i, fault) ==
    IF \/ Fails(fault, i, "Create")
       \/ GetObject(h.store, newDestinationRule.Name, newDestinationRule.Namespace) # {}
    THEN [h |-> [h EXCEPT !.log = Append(h.log, LogEntry("Create", i, StoreError))],
          err |-> StoreError]
    ELSE [h |-> [h EXCEPT !.store =
                              Append(SelectSeq(h.store,
                                         LAMBDA dr : dr.Host # newDestinationRule.Host),
                                     newDestinationRule),
                          !.created = Append(h.created, newDestinationRule.Name),
                          !.log = Append(h.log, LogEntry("Create", i, NoError))],
          err |-> NoError]

\* h.Create(h.Ctx, newDestinationRule): the handler after it and the error
createObject(h, newDestinationRule, i, fault) ==
    IF \/ Fails(fault, i, "Create")
       \/ GetObject(h.store, newDestinationRule.Name, newDestinationRule.Namespace) # {}
    THEN [h |-> [h EXCEPT !.log = Append(h.log, LogEntry("Create", i, StoreError))],
          err |-> StoreError]
    ELSE [h |-> [h EXCEPT !.store = Append(h.store, newDestinationRule),
                          !.created = Append(h.created, newDestinationRule.Name),
                          !.log = Append(h.log, LogEntry("Create", i, NoError))],
          err |-> NoError]

\* createOverridingDestinationRule once the new object is generated
createGenerated(h, generated, i, fault) ==
    IF generated.err # NoError
    THEN [h |-> [h EXCEPT !.log = h.log \o generated.log], err |-> generated.err]
    ELSE createObject([h EXCEPT !.log = h.log \o generated.log],
                      [generated.dr[1] EXCEPT !.Annotations = AddToAnnotation(Owner, @)],
                      i, fault)

\* h.createOverridingDestinationRule(drName, serviceHost): the handler after
\* the call and the error returned
createOverridingDestinationRule(h, drName, serviceHost, i, fault, k) ==
    createGenerated(h, generateOverridingDestinationRule(h, serviceHost, i, fault, k),
                    i, fault)

\* the branches of createMissingDestinationRule with the created host left out
\* of activeHosts
createdNotActive(r, serviceHost, i) ==
    IF r.err # NoError
    THEN IF r.err = IgnoredMissing
         THEN [h |-> [r.h EXCEPT !.ignoredMissing =
                                    Append(r.h.ignoredMissing, serviceHost)],
               err |-> NoError]
         ELSE r
    ELSE [h |-> r.h, err |-> NoError]

\* the branches of createMissingDestinationRule with IgnoredMissing{} returned
\* like any other error
createdOrReturned(r, serviceHost, i) ==
    IF r.err # NoError
    THEN r
    ELSE [h |-> [r.h EXCEPT !.activeHosts = Append(r.h.activeHosts, serviceHost),
                           !.added = Append(r.h.added, i)],
          err |-> NoError]

\* the branches of createMissingDestinationRule on the error of
\* createOverridingDestinationRule
createdOrIgnored(r, serviceHost, i) ==
    IF r.err # NoError
    THEN IF r.err = IgnoredMissing
         THEN [h |-> [r.h EXCEPT !.ignoredMissing =
                                    Append(r.h.ignoredMissing, serviceHost)],
               err |-> NoError]
         ELSE r
    ELSE [h |-> [r.h EXCEPT !.activeHosts = Append(r.h.activeHosts, serviceHost),
                           !.added = Append(r.h.added, i)],
          err |-> NoError]

\* the outcome r with the status Initializing recorded after it
statusRecordedAfter(r, i) ==
    [h |-> [r.h EXCEPT !.log = Append(r.h.log, LogEntry("SetStatus", i, NoError))],
     err |-> r.err]

\* createMissingDestinationRule that records Initializing after the call of
\* createOverridingDestinationRule
createMissingStatusLast(h, destinationRuleName, serviceHost, i, fault, k) ==
    IF Fails(fault, i, "SetStatus")
    THEN [h |-> [h EXCEPT !.log = Append(h.log, LogEntry("SetStatus", i, StoreError))],
          err |-> StoreError]
    ELSE createdOrIgnored(
             statusRecordedAfter(
                 createOverridingDestinationRule(
                     h, destinationRuleName, serviceHost, i, fault, k), i),
             serviceHost, i)

\* h.createMissingDestinationRule(destinationRuleName, serviceHost)
createMissingDestinationRule(h, destinationRuleName, serviceHost, i, fault, k) ==
    IF Fails(fault, i, "SetStatus")
    THEN [h |-> [h EXCEPT !.log = Append(h.log, LogEntry("SetStatus", i, StoreError))],
          err |-> StoreError]
    ELSE createdOrIgnored(
             createOverridingDestinationRule(
                 [h EXCEPT !.log = Append(h.log, LogEntry("SetStatus", i, NoError))],
                 destinationRuleName, serviceHost, i, fault, k),
             serviceHost, i)

\* the body of the loop of Handle with a found host put in front of activeHosts
handleHostPrepends(h, i, fault, k) ==
    IF Fails(fault, i, "Get")
    THEN [h |-> [h EXCEPT !.log = Append(h.log, LogEntry("Get", i, StoreError))],
          err |-> StoreError]
    ELSE IF GetObject(h.store, calculateDRName(h.ServiceHosts[i]), Namespace) = {}
    THEN createMissingDestinationRule(
             [h EXCEPT !.log = Append(h.log, LogEntry("Get", i, "NotFound"))],
             calculateDRName(h.ServiceHosts[i]), h.ServiceHosts[i], i, fault, k)
    ELSE [h |-> [h EXCEPT !.log = Append(h.log, LogEntry("Get", i, NoError)),
                          !.activeHosts = <<h.ServiceHosts[i]>> \o h.activeHosts,
                          !.added = Append(h.added, i)],
          err |-> NoError]

\* the body of the loop of Handle for the i-th service host: the handler after
\* it and the error that ends the loop, if any
handleHost(h, i, fault, k) ==
    IF Fails(fault, i, "Get")
    THEN [h |-> [h EXCEPT !.log = Append(h.log, LogEntry("Get", i, StoreError))],
          err |-> StoreError]
    ELSE IF GetObject(h.store, calculateDRName(h.ServiceHosts[i]), Namespace) = {}
    THEN createMissingDestinationRule(
             [h EXCEPT !.log = Append(h.log, LogEntry("Get", i, "NotFound"))],
             calculateDRName(h.ServiceHosts[i]), h.ServiceHosts[i], i, fault, k)
    ELSE [h |-> [h EXCEPT !.log = Append(h.log, LogEntry("Get", i, NoError)),
                          !.activeHosts = Append(h.activeHosts, h.ServiceHosts[i]),
                          !.added = Append(h.added, i)],
          err |-> NoError]

RECURSIVE HandleLoopKeepsGoing(_, _, _, _)
\* the loop of Handle going on to the next host after an error
HandleLoopKeepsGoing(r, i, fault, k) ==
    IF i > Len(r.h.ServiceHosts) THEN r
    ELSE HandleLoopKeepsGoing(
             [h |-> handleHost(r.h, i, fault, k).h,
              err |-> IF r.err # NoError THEN r.err
                      ELSE handleHost(r.h, i, fault, k).err],
             i + 1, fault, k)

RECURSIVE HandleLoop(_, _, _, _)
\* the loop of Handle from the i-th service host on, r being the outcome of
\* the hosts before it
HandleLoop(r, i, fault, k) ==
    IF r.err # NoError \/ i > Len(r.h.ServiceHosts) THEN r
    ELSE HandleLoop(handleHost(r.h, i, fault, k), i + 1, fault, k)

\* the end of Handle: an empty activeHosts is an error
handleEnd(r) ==
    IF r.err # NoError THEN r
    ELSE IF Len(r.h.activeHosts) = 0 THEN [h |-> r.h, err |-> NoBaseError]
    ELSE r

\* h.Handle(): the handler and store after the call and the error returned
Handle(h, fault, k) ==
    handleEnd(HandleLoop([h |-> h, err |-> NoError], 1, fault, k))

\* the status record of a host without the look into ignoredMissing
statusOfWithoutIgnored(h, i) ==
    [Name |-> calculateDRName(h.ServiceHosts[i]), Namespace |-> Namespace,
     Status |-> IF GetObject(h.store, calculateDRName(h.ServiceHosts[i]), Namespace) = {}
                THEN Missing
                ELSE Running]

\* the status record of the i-th service host, as the loop of GetStatus appends it
statusOf(h, i) ==
    [Name |-> calculateDRName(h.ServiceHosts[i]), Namespace |-> Namespace,
     Status |-> IF GetObject(h.store, calculateDRName(h.ServiceHosts[i]), Namespace) = {}
                THEN IF StringSliceContains(h.ServiceHosts[i], h.ignoredMissing)
                     THEN IgnoredMissingDR
                     ELSE Missing
                ELSE Running]

RECURSIVE GetStatusLoop(_, _, _, _)
\* the loop of GetStatus from the i-th service host on
GetStatusLoop(h, i, fault, statuses) ==
    IF i > Len(h.ServiceHosts) THEN [statuses |-> statuses, err |-> NoError]
    ELSE IF Fails(fault, i, "Get") THEN [statuses |-> statuses, err |-> StoreError]
    ELSE GetStatusLoop(h, i + 1, fault, Append(statuses, statusOf(h, i)))

\* h.GetStatus()
GetStatus(h, fault) == GetStatusLoop(h, 1, fault, <<>>)

\* h.GetHosts()
GetHosts(h) == h.activeHosts

(***************************************************************************)
(* The objects other parties put into the store or take out of it.         *)
(***************************************************************************)
OtherNamespace == <<"m">>
HostP == <<"p">>
HostO == <<"o">>

\* a DestinationRule with one subset labelled with the version
BaseDR(name, namespace, host, version) ==
    [Name |-> name, Namespace |-> namespace, Labels |-> {}, Host |-> host,
     Subsets |-> <<[Name |-> version, Labels |-> {<<VersionLabel, version>>}]>>,
     Annotations |-> NilAnnotations]

\* the override of a host as an earlier reconciliation left it
OverrideDR(host) ==
    [Name |-> calculateDRName(host), Namespace |-> Namespace,
     Labels |-> {<<VersionLabel, UniqueVersion>>}, Host |-> host,
     Subsets |-> <<[Name |-> UniqueVersion,
                    Labels |-> {<<VersionLabel, UniqueVersion>>}]>>,
     Annotations |-> AddToAnnotation(Owner, NilAnnotations)]

\* baselines of p: short host name, qualified host name, and one without the
\* default version; a baseline of o; a baseline of o in another namespace;
\* and the overrides of p and of o
Catalogue ==
    << BaseDR(<<"b", "1">>, Namespace, HostP, DefaultVersion),
       BaseDR(<<"b", "2">>, Namespace, HostP \o <<".">> \o Namespace, DefaultVersion),
       BaseDR(<<"b", "3">>, Namespace, HostP, <<"3">>),
       BaseDR(<<"b", "4">>, Namespace, HostO, DefaultVersion),
       BaseDR(<<"b", "5">>, OtherNamespace, HostO, DefaultVersion),
       OverrideDR(HostP),
       OverrideDR(HostO) >>

\* the configured host lists
HostLists == {<<HostP>>, <<HostP, HostO>>, <<HostO, HostP>>}

Range(s) == {s[i] : i \in 1..Len(s)}

(***************************************************************************)
(* State.                                                                  *)
(***************************************************************************)
VARIABLES
    serviceHosts,    \* h.ServiceHosts
    store,           \* the DestinationRules of the cluster, in the store's order
    activeHosts,     \* h.activeHosts
    ignoredMissing,  \* h.ignoredMissing
    calls,           \* number of Handle calls made on the handler
    extChanges,      \* number of changes others made to the store
    last,            \* what the last Handle call did
    prev,            \* what the Handle call before it did
    statusResult,    \* what GetStatus returned, when it was the last operation
    object,          \* annotations of the object of a watch event
    objectOld,       \* annotations of that object before its last update
    queue,           \* the requests the last event handler added to the queue
    panicked,        \* the last event handler ended in a run-time panic
    lastOp,          \* the last operation on the annotation
    history,         \* the owners added to the annotation and not removed since
    naming           \* two (UniqueName, serviceHost) pairs and their names

handlerVars == <<serviceHosts, store, activeHosts, ignoredMissing, calls,
                 extChanges, last, prev, statusResult>>
watchVars == <<object, objectOld, queue, panicked, lastOp, history, naming>>
vars == <<serviceHosts, store, activeHosts, ignoredMissing, calls,
          extChanges, last, prev, statusResult,
          object, objectOld, queue, panicked, lastOp, history, naming>>

\* the record of a Handle call: the error returned, the operations issued,
\* the names created, the positions of the hosts appended to activeHosts, the
\* store and the lists before the call, the lists after it, and whether others
\* changed the store since the call before
NoCall == [err |-> NoError, log |-> <<>>, created |-> <<>>, added |-> <<>>,
           storeBefore |-> <<>>, activeBefore |-> <<>>, ignoredBefore |-> <<>>,
           activeAfter |-> <<>>, ext |-> 0, changed |-> FALSE]

NoStatus == [valid |-> FALSE, statuses |-> <<>>, err |-> NoError, fault |-> NoFault]

NoOp == [op |-> "none", owner |-> Owner, before |-> NilAnnotations]

\* the history of an annotation nobody was added to: whether the object came
\* without the annotation, the tokens of the owners added and not removed
\* since, in the order of these additions, and the tokens of all owners ever
\* added, in the order of their first addition
NoHistory(annotations) ==
    [clean |-> NamespacedNameAnnotation \notin annotations.keys,
     order |-> <<>>, first |-> <<>>]

NoNaming == [a |-> <<>>, b |-> <<>>, names |-> <<>>]

HandleFaults ==
    {NoFault} \cup [host : 1..Len(serviceHosts), op : {"Get", "SetStatus", "List", "Create"}]
GetStatusFaults == {NoFault} \cup [host : 1..Len(serviceHosts), op : {"Get"}]

\* the handler as the operations above take it
Handler ==
    [ServiceHosts |-> serviceHosts, store |-> store, activeHosts |-> activeHosts,
     ignoredMissing |-> ignoredMissing, log |-> <<>>, created |-> <<>>, added |-> <<>>]

(***************************************************************************)
(* The handler: a new handler over any store.                              *)
(***************************************************************************)
WatchIdle ==
    /\ object = NilAnnotations
    /\ objectOld = NilAnnotations
    /\ queue = <<>>
    /\ panicked = FALSE
    /\ lastOp = NoOp
    /\ history = NoHistory(NilAnnotations)
    /\ naming = NoNaming

Init ==
    /\ serviceHosts \in HostLists
    /\ \E S \in SUBSET (1..Len(Catalogue)) :
           store = SelectSeq(Catalogue, LAMBDA dr :
                       \E j \in S : Catalogue[j] = dr)
    /\ activeHosts = <<>>
    /\ ignoredMissing = <<>>
    /\ calls = 0
    /\ extChanges = 0
    /\ last = NoCall
    /\ prev = NoCall
    /\ statusResult = NoStatus
    /\ WatchIdle

\* a call of h.Handle(), the store failing as one of faults says
HandleCall(faults) ==
    /\ calls < MaxCalls
    /\ \E fault \in faults, k \in BOOLEAN :
        \E r \in {Handle(Handler, fault, k)} :
          /\ store' = r.h.store
          /\ activeHosts' = r.h.activeHosts
          /\ ignoredMissing' = r.h.ignoredMissing
          /\ last' = [err |-> r.err, log |-> r.h.log,
                      created |-> r.h.created, added |-> r.h.added,
                      storeBefore |-> store, activeBefore |-> activeHosts,
                      ignoredBefore |-> ignoredMissing,
                      activeAfter |-> r.h.activeHosts,
                      ext |-> extChanges,
                      changed |-> (extChanges > last.ext)]
    /\ prev' = [last EXCEPT !.storeBefore = <<>>, !.activeBefore = <<>>,
                             !.ignoredBefore = <<>>, !.added = <<>>,
                             !.log = <<>>, !.ext = 0, !.changed = FALSE]
    /\ calls' = calls + 1
    /\ statusResult' = NoStatus
    /\ UNCHANGED <<serviceHosts, extChanges>>
    /\ UNCHANGED watchVars

\* a call of h.Handle() that the store answers without failure
DoHandle == HandleCall({NoFault})

\* a call of h.Handle() during which an operation of the store or the status
\* update may fail
DoHandleFailing == HandleCall(HandleFaults)

\* a call of h.GetStatus()
DoGetStatus ==
    /\ \E fault \in GetStatusFaults :
        \E r \in {GetStatus(Handler, fault)} :
          statusResult' = [valid |-> TRUE, statuses |-> r.statuses,
                           err |-> r.err, fault |-> fault]
    /\ UNCHANGED <<serviceHosts, store, activeHosts, ignoredMissing, calls,
                   extChanges, last, prev>>
    /\ UNCHANGED watchVars

\* another party deletes an object of the store between two calls
ExtDelete ==
    /\ calls > 0
    /\ calls < MaxCalls
    /\ extChanges < MaxExt
    /\ \E j \in 1..Len(store) :
          store' = SelectSeq(store, LAMBDA dr : dr # store[j])
    /\ extChanges' = extChanges + 1
    /\ statusResult' = NoStatus
    /\ UNCHANGED <<serviceHosts, activeHosts, ignoredMissing, calls, last, prev>>
    /\ UNCHANGED watchVars

\* another party creates an object between two calls
ExtCreate ==
    /\ calls > 0
    /\ calls < MaxCalls
    /\ extChanges < MaxExt
    /\ \E j \in 1..Len(Catalogue) :
          /\ GetObject(store, Catalogue[j].Name, Catalogue[j].Namespace) = {}
          /\ store' = Append(store, Catalogue[j])
    /\ extChanges' = extChanges + 1
    /\ statusResult' = NoStatus
    /\ UNCHANGED <<serviceHosts, activeHosts, ignoredMissing, calls, last, prev>>
    /\ UNCHANGED watchVars

\* the handler with others changing the store between its calls
Next == DoHandle \/ DoGetStatus \/ ExtDelete \/ ExtCreate

Spec == Init /\ [][Next]_vars

\* the handler on a store whose operations may fail
FailNext == DoHandleFailing

FailSpec == Init /\ [][FailNext]_vars

(***************************************************************************)
(* The watch: the event handler EnqueueRequestForAnnotation and the        *)
(* annotation operations, on one object whose first annotation value may   *)
(* have been written by anybody.                                           *)
(***************************************************************************)
\* the characters of the annotation values written by others
Alphabet == {"a", "/", ","}

\* the owners that are added and removed
Owners == {[Namespace |-> <<"a">>, Name |-> <<"a">>],
           [Namespace |-> <<"b">>, Name |-> <<"a">>]}

\* the objects of the first event
InputObjects ==
    {NilAnnotations, EmptyAnnotations,
     SetKey(EmptyAnnotations, OtherAnnotation, <<"a">>)}
    \cup {SetKey(EmptyAnnotations, NamespacedNameAnnotation, v) :
              v \in StringsUpTo(Alphabet, MaxLen)}
    \cup {SetKey(SetKey(EmptyAnnotations, OtherAnnotation, <<"a">>),
                 NamespacedNameAnnotation, v) : v \in StringsUpTo(Alphabet, 1)}

HandlerIdle ==
    /\ serviceHosts = <<HostP>>
    /\ store = <<>>
    /\ activeHosts = <<>>
    /\ ignoredMissing = <<>>
    /\ calls = 0
    /\ extChanges = 0
    /\ last = NoCall
    /\ prev = NoCall
    /\ statusResult = NoStatus

WatchInit ==
    /\ HandlerIdle
    /\ object \in InputObjects
    /\ objectOld = object
    /\ queue = <<>>
    /\ panicked = FALSE
    /\ lastOp = NoOp
    /\ history = NoHistory(object)
    /\ naming = NoNaming

\* the history after the owner was added
Added(owner) ==
    [clean |-> history.clean,
     order |-> IF StringSliceContains(OwnerToken(owner), history.order)
               THEN history.order
               ELSE Append(history.order, OwnerToken(owner)),
     first |-> IF StringSliceContains(OwnerToken(owner), history.first)
               THEN history.first
               ELSE Append(history.first, OwnerToken(owner))]

\* the history after the owner was removed
Removed(owner) ==
    [clean |-> history.clean,
     order |-> SelectSeq(history.order, LAMBDA t : t # OwnerToken(owner)),
     first |-> history.first]

\* watches.AddToAnnotation(owner, object)
DoAdd ==
    /\ ~panicked
    /\ Len(Lookup(object, NamespacedNameAnnotation)) <= MaxAnnLen
    /\ \E owner \in Owners :
          /\ object' = AddToAnnotation(owner, object)
          /\ lastOp' = [op |-> "Add", owner |-> owner, before |-> object]
          /\ history' = Added(owner)
    /\ objectOld' = object
    /\ queue' = <<>>
    /\ UNCHANGED <<panicked, naming>>
    /\ UNCHANGED handlerVars

\* watches.RemoveFromAnnotation(owner, object)
DoRemove ==
    /\ ~panicked
    /\ \E owner \in Owners :
          /\ object' = RemoveFromAnnotation(owner, object)
          /\ lastOp' = [op |-> "Remove", owner |-> owner, before |-> object]
          /\ history' = Removed(owner)
    /\ objectOld' = object
    /\ queue' = <<>>
    /\ UNCHANGED <<panicked, naming>>
    /\ UNCHANGED handlerVars

\* the requests an event handler adds for one object, and whether it panicked
Enqueued(op, r) ==
    /\ queue' = r.q
    /\ panicked' = r.panic
    /\ lastOp' = [op |-> op, owner |-> Owner, before |-> object]
    /\ UNCHANGED <<object, objectOld, history, naming>>
    /\ UNCHANGED handlerVars

\* addToQueue(evt.ObjectOld, q) after addToQueue(evt.ObjectNew, q)
addOldAfterNew(r, old) == IF r.panic THEN r ELSE addToQueue(old, r.q)

\* EnqueueRequestForAnnotation.Create
Create == ~panicked /\ Enqueued("Create", addToQueue(object, <<>>))

\* EnqueueRequestForAnnotation.Update
Update ==
    ~panicked /\ Enqueued("Update", addOldAfterNew(addToQueue(object, <<>>), objectOld))

\* EnqueueRequestForAnnotation.Delete
Delete == ~panicked /\ Enqueued("Delete", addToQueue(object, <<>>))

\* EnqueueRequestForAnnotation.Generic
Generic == ~panicked /\ Enqueued("Generic", addToQueue(object, <<>>))

WatchNext == DoAdd \/ DoRemove \/ Create \/ Update \/ Delete \/ Generic

WatchSpec == WatchInit /\ [][WatchNext]_vars

(***************************************************************************)
(* The names of the overrides: calculateDRName of two handlers' UniqueName *)
(* and a service host of each.                                             *)
(***************************************************************************)
\* the characters of the names
NameAlphabet == {"a", "-"}

\* names as the cluster accepts them: not empty, a letter first and last
Names ==
    {s \in StringsUpTo(NameAlphabet, MaxNameLen) :
        Len(s) > 0 /\ s[1] # "-" /\ s[Len(s)] # "-"}

NamePairs == [UniqueName : Names, serviceHost : Names]

NameInit ==
    /\ HandlerIdle
    /\ object = NilAnnotations
    /\ objectOld = NilAnnotations
    /\ queue = <<>>
    /\ panicked = FALSE
    /\ lastOp = NoOp
    /\ history = NoHistory(NilAnnotations)
    /\ naming \in [a : NamePairs, b : NamePairs, names : {<<>>}]

\* h.calculateDRName(serviceHost) of both pairs
CalculateNames ==
    /\ naming.names = <<>>
    /\ naming' = [naming EXCEPT !.names =
                      <<calculateDRNameOf(naming.a.UniqueName, naming.a.serviceHost),
                        calculateDRNameOf(naming.b.UniqueName, naming.b.serviceHost)>>]
    /\ UNCHANGED <<object, objectOld, queue, panicked, lastOp, history>>
    /\ UNCHANGED handlerVars

NameNext == CalculateNames

NameSpec == NameInit /\ [][NameNext]_vars

(***************************************************************************)
(* What the properties below say about a store and a call.                 *)
(***************************************************************************)
\* the override of the host is in the store
HasOverride(st, host) ==
    \E j \in 1..Len(st) :
        st[j].Name = calculateDRName(host) /\ st[j].Namespace = Namespace

\* the store holds a baseline of the host with a subset of the default version
HasBaseline(st, host) ==
    \E j \in 1..Len(st) :
        /\ st[j].Namespace = Namespace
        /\ st[j].Host \in {host, host \o <<".">> \o Namespace}
        /\ \E n \in 1..Len(st[j].Subsets) :
              <<VersionLabel, DefaultVersion>> \in st[j].Subsets[n].Labels

\* the last Handle call issued the operation for the i-th host, with that result
Did(op, i, res) == LogEntry(op, i, res) \in Range(last.log)
Issued(op, i) == \E e \in Range(last.log) : e.op = op /\ e.host = i

\* nobody changed the store since the last Handle call returned
Untouched == extChanges = last.ext

\* no two objects of the store have the same namespace and name
NoDuplicateObjects ==
    \A i, j \in 1..Len(store) :
        (store[i].Name = store[j].Name /\ store[i].Namespace = store[j].Namespace)
            => i = j

(***************************************************************************)
(* Properties of the handler.                                              *)
(***************************************************************************)
\* C1: of two consecutive Handle calls with no change of the store by others
\* between them and no failure of the store in either, the second leaves
\* the same set of active hosts (GetHosts) as the first and issues no Create,
\* and the store never holds two objects of one name
C1_HandleIdempotent ==
    /\ NoDuplicateObjects
    /\ (calls >= 2 /\ ~last.changed /\ last.err # StoreError /\ prev.err # StoreError)
          => /\ Range(GetHosts(Handler)) = Range(prev.activeAfter)
             /\ last.created = <<>>
             /\ \A i \in 1..Len(serviceHosts) : ~Issued("Create", i)

C1_Witness ==
    /\ calls >= 2 /\ ~last.changed
    /\ last.err = NoError /\ prev.err = NoError
    /\ prev.created # <<>>
    /\ ignoredMissing # <<>>

\* C2: a Handle call that returns success confirmed in that call the override
\* of at least one host (found by Get or created)
C2_SuccessConfirmsAHost ==
    (calls >= 1 /\ last.err = NoError) => last.added # <<>>

\* C3: when every host has no override and resolves to IgnoredMissing, Handle
\* returns the error of the empty active list, creates nothing and has every
\* host in the ignored list
C3_AllIgnoredIsAnError ==
    (calls >= 1 /\ \A i \in 1..Len(serviceHosts) :
                      Did("Get", i, "NotFound") /\ Did("List", i, IgnoredMissing))
        => /\ last.err = NoBaseError
           /\ last.created = <<>>
           /\ \A i \in 1..Len(serviceHosts) :
                 StringSliceContains(serviceHosts[i], ignoredMissing)

\* C4: a host is in the ignored list at most once, however many Handle calls
\* were made
C4_IgnoredExactlyOnce ==
    \A host \in Range(ignoredMissing) : Count(host, ignoredMissing) = 1

\* C5: after one Handle call on a new handler, with every host having its
\* override or a baseline with the default version and the store not failing,
\* Handle succeeds and the active hosts are the configured hosts, in order
C5_ActiveEqualsInput ==
    (/\ calls = 1
     /\ last.err # StoreError
     /\ \A i \in 1..Len(serviceHosts) :
           \/ HasOverride(last.storeBefore, serviceHosts[i])
           \/ HasBaseline(last.storeBefore, serviceHosts[i]))
        => /\ last.err = NoError
           /\ GetHosts(Handler) = serviceHosts

C5_Witness ==
    /\ calls = 1
    /\ last.err = NoError
    /\ Len(serviceHosts) = 2
    /\ Len(last.created) = 1
    /\ HasOverride(last.storeBefore, serviceHosts[1])
    /\ activeHosts = serviceHosts

\* the status GetStatus is to report for a host
ExpectedStatus(host) ==
    IF HasOverride(store, host) THEN Running
    ELSE IF host \in Range(ignoredMissing) THEN IgnoredMissingDR
    ELSE Missing

C7_IgnoredDoesNotAbort ==
    calls >= 1 =>
        /\ last.err # IgnoredMissing
        /\ \A i \in 1..Len(serviceHosts) :
              Did("List", i, IgnoredMissing) =>
                  /\ serviceHosts[i] \in Range(ignoredMissing)
                  /\ \A j \in (i + 1)..Len(serviceHosts) :
                        \/ /\ Issued("Get", j)
                           /\ Did("Get", j, "NotFound") => Issued("SetStatus", j)
                        \/ \E e \in Range(last.log) :
                              e.res = StoreError /\ e.host > i /\ e.host < j

C7_Witness ==
    /\ calls >= 1
    /\ Len(serviceHosts) = 2
    /\ Did("List", 1, IgnoredMissing)
    /\ Did("Create", 2, NoError)
    /\ last.err = NoError

\* C8: a failure of a store operation or of the status update ends Handle at
\* once with an error: nothing is issued for a later host; what was in the
\* store and what the call created stays there; and the next Handle call,
\* when nobody changed the store in between, issues no Create for the hosts
\* created and has them among the active hosts
C8_FailFastAndRetry ==
    /\ (calls >= 1 /\ (\E e \in Range(last.log) : e.res = StoreError))
          => /\ last.err = StoreError
             /\ last.log[Len(last.log)].res = StoreError
             /\ \A n \in 1..(Len(last.log) - 1) : last.log[n].res # StoreError
             /\ \A i \in 1..Len(serviceHosts) :
                   i > last.log[Len(last.log)].host
                       => \A e \in Range(last.log) : e.host # i
    /\ (calls >= 1 /\ Untouched)
          => /\ \A dr \in Range(last.storeBefore) : dr \in Range(store)
             /\ \A i \in 1..Len(serviceHosts) :
                   Did("Create", i, NoError)
                       => HasOverride(store, serviceHosts[i])
    /\ (calls >= 2 /\ prev.err = StoreError /\ ~last.changed)
          => \A i \in 1..Len(serviceHosts) :
                calculateDRName(serviceHosts[i]) \in Range(prev.created)
                    => /\ ~Issued("Create", i)
                       /\ ~Did("Get", i, "NotFound")
                       /\ Did("Get", i, NoError) => i \in Range(last.added)
                       /\ serviceHosts[i] \in Range(GetHosts(Handler))

C8_Witness ==
    /\ calls >= 2
    /\ prev.err = StoreError
    /\ prev.created # <<>>
    /\ ~last.changed
    /\ last.err = NoError
    /\ \E i \in 1..Len(serviceHosts) :
          /\ calculateDRName(serviceHosts[i]) \in Range(prev.created)
          /\ i \in Range(last.added)

\* the object is a baseline of the host: in the namespace of the handler, its
\* host the host or the host with the namespace, and with a subset whose
\* version label is the default version
IsBaselineOf(dr, host) ==
    /\ dr.Namespace = Namespace
    /\ \/ dr.Host \in {host, host \o <<".">> \o Namespace}
       \/ dr.Host \o <<".">> \o dr.Namespace = host
    /\ \E n \in 1..Len(dr.Subsets) :
          <<VersionLabel, DefaultVersion>> \in dr.Subsets[n].Labels

\* C14: one Handle call on a new handler, the store not failing, creates an
\* override for exactly the hosts that have no override and have a baseline
\* with a subset of the default version; every object it creates is named
\* UniqueName-host, has the host field of such a baseline, exactly the one
\* subset named UniqueVersion with the label VersionLabel: UniqueVersion, and
\* the token of the owner in its annotation as Create gets it
C14_CreatesOverrides ==
    (calls = 1 /\ Untouched) =>
        /\ \A i \in 1..Len(serviceHosts) :
              /\ Did("Create", i, NoError)
                    <=> /\ ~HasOverride(last.storeBefore, serviceHosts[i])
                        /\ HasBaseline(last.storeBefore, serviceHosts[i])
              /\ ~HasBaseline(last.storeBefore, serviceHosts[i])
                    => ~Issued("Create", i)
        /\ Len(store) = Len(last.storeBefore)
                            + Cardinality({i \in 1..Len(serviceHosts) :
                                              Did("Create", i, NoError)})
        /\ \A j \in (Len(last.storeBefore) + 1)..Len(store) :
              \E i \in 1..Len(serviceHosts) :
                 /\ Did("Create", i, NoError)
                 /\ store[j].Name = UniqueName \o <<"-">> \o serviceHosts[i]
                 /\ \E b \in 1..Len(last.storeBefore) :
                       /\ IsBaselineOf(last.storeBefore[b], serviceHosts[i])
                       /\ store[j].Host = last.storeBefore[b].Host
                 /\ store[j].Subsets =
                       <<[Name |-> UniqueVersion,
                          Labels |-> {<<VersionLabel, UniqueVersion>>}]>>
                 /\ ContainsAnnotation(Owner, store[j].Annotations)

C14_Witness ==
    /\ calls = 1 /\ Untouched
    /\ Len(serviceHosts) = 2
    /\ \E i, j \in 1..2 :
          /\ Did("Create", i, NoError)
          /\ Did("List", j, IgnoredMissing)
          /\ store[Len(store)].Name = calculateDRName(serviceHosts[i])
          /\ store[Len(store)].Host # serviceHosts[i]

\* in the last Handle call, the status Initializing was recorded for the
\* i-th host before the operation op was issued for it
InitializingBefore(op, i) ==
    \E n, m \in 1..Len(last.log) :
        /\ n < m
        /\ last.log[n] = LogEntry("SetStatus", i, NoError)
        /\ last.log[m].op = op /\ last.log[m].host = i

\* C16 as stated: over a Handle call and the GetStatus after it, a host that
\* GetStatus reports as IgnoredMissing was not recorded as Initializing by
\* the call, and Initializing is recorded before the Create of every object
C16_IgnoredNeverInitializing ==
    calls >= 1 =>
        /\ \A i \in 1..Len(serviceHosts) :
              Issued("Create", i) => InitializingBefore("Create", i)
        /\ (statusResult.valid /\ Untouched) =>
              \A i \in 1..Len(statusResult.statuses) :
                 statusResult.statuses[i].Status = IgnoredMissingDR
                     => ~Issued("SetStatus", i)

\* C16: over a Handle call and the GetStatus after it, Initializing is
\* recorded for every host whose override Get does not find, before the
\* baseline is looked for and before the Create of every object; GetStatus
\* then reports Running for a host whose object was created and
\* IgnoredMissing for a host without a baseline, which was recorded as
\* Initializing first: Missing, Initializing, Running or Missing,
\* Initializing, IgnoredMissing
C16_InitializingFirst ==
    calls >= 1 =>
        /\ \A i \in 1..Len(serviceHosts) :
              /\ Did("Get", i, "NotFound") => Did("SetStatus", i, NoError)
              /\ Issued("SetStatus", i) => Did("Get", i, "NotFound")
              /\ Issued("List", i) => InitializingBefore("List", i)
              /\ Issued("Create", i) => InitializingBefore("Create", i)
        /\ (statusResult.valid /\ Untouched) =>
              \A i \in 1..Len(statusResult.statuses) :
                 /\ Did("Create", i, NoError)
                       => statusResult.statuses[i].Status = Running
                 /\ Did("List", i, IgnoredMissing)
                       => /\ statusResult.statuses[i].Status = IgnoredMissingDR
                          /\ InitializingBefore("List", i)
                 /\ Issued("SetStatus", i)
                       => statusResult.statuses[i].Status \in {Running, IgnoredMissingDR}

C16_Witness ==
    /\ calls = 1 /\ Untouched
    /\ statusResult.valid
    /\ Len(statusResult.statuses) = 2
    /\ \E i, j \in 1..2 :
          /\ InitializingBefore("Create", i)
          /\ statusResult.statuses[i].Status = Running
          /\ InitializingBefore("List", j)
          /\ statusResult.statuses[j].Status = IgnoredMissingDR

\* C17: locateDestinationRuleByHostname returns the first of the objects
\* that List gives for the namespace of the handler, in the order List gives
\* them, that matches the host and has a subset whose version label is the
\* default version; IgnoredMissing when no listed object is such; and the
\* error of List when List fails, which Handle returns without putting the
\* host into ignoredMissing
C17_LocateFirstAccepted ==
    /\ \A i \in 1..Len(serviceHosts), k \in BOOLEAN :
          \A r \in {locateDestinationRuleByHostname(Handler, serviceHosts[i], i, NoFault, k)},
             items \in {ListObjects(store, Namespace, k)} :
             IF \E j \in 1..Len(items) : IsBaselineOf(items[j], serviceHosts[i])
             THEN /\ r.err = NoError
                  /\ \E j \in 1..Len(items) :
                        /\ IsBaselineOf(items[j], serviceHosts[i])
                        /\ \A m \in 1..(j - 1) : ~IsBaselineOf(items[m], serviceHosts[i])
                        /\ r.dr = <<items[j]>>
             ELSE r.err = IgnoredMissing /\ r.dr = <<>>
    /\ \A i \in 1..Len(serviceHosts) :
          \A r \in {locateDestinationRuleByHostname(Handler, serviceHosts[i], i,
                         [host |-> i, op |-> "List"], FALSE)} :
             r.err = StoreError /\ r.dr = <<>>
    /\ calls >= 1 =>
          /\ \A i \in 1..Len(serviceHosts) :
                Did("List", i, StoreError) => last.err = StoreError
          /\ Len(ignoredMissing) = Len(last.ignoredBefore)
                + Cardinality({i \in 1..Len(serviceHosts) :
                                  Did("List", i, IgnoredMissing)})

C17_Witness ==
    /\ calls >= 1 /\ Untouched
    /\ Len(serviceHosts) = 2
    /\ Did("List", 1, NoError)
    /\ Did("List", 2, StoreError)
    /\ Cardinality({b \in 1..Len(last.storeBefore) :
                       IsBaselineOf(last.storeBefore[b], serviceHosts[1])}) >= 2
    /\ \E b \in 1..Len(last.storeBefore) :
          /\ last.storeBefore[b].Host = serviceHosts[1]
          /\ ~IsBaselineOf(last.storeBefore[b], serviceHosts[1])

\* C18: a Handle call leaves every object of the store in it and as it was,
\* and adds only the objects it created, each for a host whose override Get
\* did not find; a GetStatus call leaves the store as it was
C18_OnlyCreates ==
    [][/\ calls' = calls + 1 =>
             /\ Len(store') >= Len(store)
             /\ \A j \in 1..Len(store) : store'[j] = store[j]
             /\ Len(store') = Len(store)
                    + Cardinality({e \in Range(last'.log) :
                                      e.op = "Create" /\ e.res = NoError})
             /\ \A j \in (Len(store) + 1)..Len(store') :
                   /\ GetObject(store, store'[j].Name, store'[j].Namespace) = {}
                   /\ \E i \in 1..Len(serviceHosts) :
                         /\ store'[j].Name = calculateDRName(serviceHosts[i])
                         /\ store'[j].Namespace = Namespace
                         /\ LogEntry("Get", i, "NotFound") \in Range(last'.log)
                         /\ LogEntry("Create", i, NoError) \in Range(last'.log)
       /\ statusResult'.valid => store' = store]_vars

C18_Witness ==
    /\ calls >= 1 /\ Untouched
    /\ last.storeBefore # <<>>
    /\ last.created # <<>>
    /\ Len(store) = Len(last.storeBefore) + Len(last.created)
    /\ statusResult.valid

\* C20: after any Handle calls, with others changing the store between them,
\* no host is both in activeHosts and in ignoredMissing, and every host of a
\* Handle call that returned without error is in one of the two
C20_ActiveIgnoredDisjoint ==
    /\ Range(activeHosts) \cap Range(ignoredMissing) = {}
    /\ (calls >= 1 /\ last.err = NoError) =>
          \A i \in 1..Len(serviceHosts) :
             serviceHosts[i] \in Range(activeHosts) \cup Range(ignoredMissing)

(***************************************************************************)
(* Properties of the watch.                                                *)
(***************************************************************************)
\* the tokens of an annotation value
Tokens(annotations) == Split(Lookup(annotations, NamespacedNameAnnotation), ",")

\* the request of a token with a separator
RequestOf(token) ==
    [Namespace |-> SubSeq(token, 1, IndexOf(token, "/") - 1),
     Name |-> SubSeq(token, IndexOf(token, "/") + 1, Len(token))]

RECURSIVE RequestsOf(_)
\* the requests of the tokens that have a separator, in order
RequestsOf(tokens) ==
    IF Len(tokens) = 0 THEN <<>>
    ELSE IF IndexOf(tokens[1], "/") = 0 THEN RequestsOf(Tail(tokens))
    ELSE <<RequestOf(tokens[1])>> \o RequestsOf(Tail(tokens))

\* C9: decoding the annotation of the object of a Create, Delete or Generic
\* event does not fault, and adds the requests of the tokens that have a
\* separator, skipping the others (none for an empty annotation)
C9_DecodeNeverFaults ==
    lastOp.op \in {"Create", "Delete", "Generic"} =>
        /\ ~panicked
        /\ queue = (IF object.nil THEN <<>> ELSE RequestsOf(Tokens(object)))

\* the annotation is absent or empty, or a list of distinct tokens that each
\* have a separator
WireFormat(annotations) ==
    \/ Lookup(annotations, NamespacedNameAnnotation) = <<>>
    \/ /\ \A n \in 1..Len(Tokens(annotations)) :
             IndexOf(Tokens(annotations)[n], "/") # 0
       /\ \A n, m \in 1..Len(Tokens(annotations)) :
             Tokens(annotations)[n] = Tokens(annotations)[m] => n = m

C11_RemoveAbsentIsNoOp ==
    (lastOp.op = "Remove" /\ ~ContainsAnnotation(lastOp.owner, lastOp.before))
        => object = lastOp.before

\* the list an annotation value stands for: none for the empty value
TokenList(annotations) ==
    IF Lookup(annotations, NamespacedNameAnnotation) = <<>> THEN <<>>
    ELSE Tokens(annotations)

\* the list is one of distinct namespace/name tokens, none of them empty
DistinctOwnerTokens(tokens) ==
    /\ \A n \in 1..Len(tokens) :
          /\ tokens[n] # <<>>
          /\ \E owner \in Owners : tokens[n] = OwnerToken(owner)
    /\ \A n, m \in 1..Len(tokens) : tokens[n] = tokens[m] => n = m

\* the owners in the annotation, in the order in which each was added for the
\* first time
InOrderOfFirstAddition ==
    SelectSeq(history.first, LAMBDA t : StringSliceContains(t, history.order))

\* C12 as stated: after any AddToAnnotation and RemoveFromAnnotation calls on
\* an object that came without the annotation, the value is the comma-joined
\* list of distinct namespace/name tokens, none empty, of the owners added
\* and not removed, in the order in which the owners were first added
C12_OrderOfFirstAddition ==
    history.clean =>
        /\ DistinctOwnerTokens(TokenList(object))
        /\ TokenList(object) = InOrderOfFirstAddition
        /\ Lookup(object, NamespacedNameAnnotation) = Join(InOrderOfFirstAddition, ",")

\* C12: after any AddToAnnotation and RemoveFromAnnotation calls on an object
\* that came without the annotation, the value is the comma-joined list of
\* distinct namespace/name tokens, none empty, of the owners added and not
\* removed, in the order of the last addition of each owner that found it
\* absent (an owner removed and added again is last)
C12_OrderOfAddition ==
    history.clean =>
        /\ DistinctOwnerTokens(TokenList(object))
        /\ TokenList(object) = history.order
        /\ Lookup(object, NamespacedNameAnnotation) = Join(history.order, ",")

C12_Witness ==
    /\ history.clean
    /\ lastOp.op = "Add"
    /\ Len(history.order) = 2
    /\ history.order # history.first
    /\ TokenList(object) = history.order

\* the requests of the owner tokens of an object
RequestsOfObject(annotations) ==
    IF annotations.nil THEN <<>> ELSE RequestsOf(Tokens(annotations))

\* C13: an Update event adds to the queue a request for every owner token of
\* the annotation of the old object and of the new object, and nothing else;
\* a Create, Delete or Generic event adds one request for each owner token of
\* its object, none when the object has no owners
C13_EventsEnqueueOwners ==
    /\ lastOp.op = "Update" =>
          /\ ~panicked
          /\ Range(queue) = Range(RequestsOfObject(object))
                                \cup Range(RequestsOfObject(objectOld))
    /\ lastOp.op \in {"Create", "Delete", "Generic"} =>
          /\ ~panicked
          /\ Len(queue) = Len(RequestsOfObject(object))
          /\ Range(queue) = Range(RequestsOfObject(object))

\* the same for objects whose annotations are in the wire format
EventsEnqueueOwnersOnWireFormat ==
    (WireFormat(object) /\ WireFormat(objectOld)) => C13_EventsEnqueueOwners

\* C19: RemoveFromAnnotation of the only owner in the annotation leaves the
\* key in the annotations with the empty string as its value; after it
\* ContainsAnnotation is false for the owner, addToQueue adds no request, and
\* AddToAnnotation of the owner makes the value exactly the token of the owner
C19_RemoveOnlyOwner ==
    (/\ lastOp.op = "Remove"
     /\ NamespacedNameAnnotation \in lastOp.before.keys
     /\ Lookup(lastOp.before, NamespacedNameAnnotation) = OwnerToken(lastOp.owner))
        => /\ NamespacedNameAnnotation \in object.keys
           /\ ~object.nil
           /\ Lookup(object, NamespacedNameAnnotation) = <<>>
           /\ ~ContainsAnnotation(lastOp.owner, object)
           /\ addToQueue(object, <<>>) = [q |-> <<>>, panic |-> FALSE]
           /\ Lookup(AddToAnnotation(lastOp.owner, object), NamespacedNameAnnotation)
                 = OwnerToken(lastOp.owner)

C19_Witness ==
    /\ lastOp.op = "Remove"
    /\ Lookup(lastOp.before, NamespacedNameAnnotation) = OwnerToken(lastOp.owner)
    /\ object.keys = AnnotationKeys
    /\ Lookup(object, NamespacedNameAnnotation) = <<>>
    /\ Lookup(object, OtherAnnotation) # <<>>

(***************************************************************************)
(* Properties of the names.                                                *)
(***************************************************************************)
\* C15: two different pairs of UniqueName and service host never have the
\* same name of the override
C15_NamesUnique ==
    (naming.names # <<>> /\ naming.a # naming.b)
        => naming.names[1] # naming.names[2]

====
